---------------------------- MODULE Spec2Model ----------------------------
(***************************************************************************)
(* Typed accessors for AArch64 virtualization system registers and the     *)
(* MCR/MRC trap syndrome (cortex-a).                                       *)
(*                                                                         *)
(* A register value of width W is modelled exactly as the set of its set   *)
(* bit positions, a subset of 0..W-1: and is intersection, or is union,    *)
(* not is complement in 0..W-1, a left shift drops what leaves the width.  *)
(*                                                                         *)
(* The accessors implement register::cpu::RegisterReadOnly/ReadWrite; the  *)
(* trait's provided methods (read, write, modify) and the bit-field types  *)
(* (Field, FieldValue) are those of the `register` crate the source files  *)
(* import, modelled by what they compute:                                  *)
(*   Field::read(raw)        (raw & (mask << shift)) >> shift              *)
(*   Field::val(v)           FieldValue { mask << shift,                   *)
(*                                        (v & mask) << shift }            *)
(*   FieldValue::modify(raw) (raw & !mask) | value                         *)
(*   read(field)             field.read(get())                             *)
(*   write(fieldvalue)       set(fieldvalue.value)                         *)
(*   modify(fieldvalue)      set(fieldvalue.modify(get()))                 *)
(***************************************************************************)
EXTENDS Integers, FiniteSets, Sequences, TLC

VARIABLES
    reg,    \* the accessor under observation: a register name or "ISS"
    hw,     \* the value held by the physical register `reg`
    iss,    \* the McrMrcAccessIss object (its captured value)
    issArg, \* the argument new() was called with
    ctx,    \* per execution context: the read-modify-write in flight
    last,   \* the last completed operation and what it returned
    prev,   \* the register value just before the last register write
    prevW,  \* the register write of another context that the last write followed
    nops    \* operations started so far

vars == <<reg, hw, iss, issArg, ctx, last, prev, prevW, nops>>

-----------------------------------------------------------------------------
(* Bounds *)

\* Operations started in one behaviour.
MaxOps == 2

-----------------------------------------------------------------------------
(* Bit vectors *)

Ones(W) == 0 .. (W - 1)

Alt(W) == {i \in Ones(W) : i % 2 = 1}

\* The bit set of a natural number below 2^31.
Bits(n) == {i \in 0 .. 30 : (n \div (2 ^ i)) % 2 = 1}

Shl(v, n, W) == {i + n : i \in v} \cap Ones(W)

Shr(v, n) == {i - n : i \in {j \in v : j >= n}}

-----------------------------------------------------------------------------
(* Register layouts: register_bitfields! { uN, NAME [ FIELD OFFSET(o) NUMBITS(n) ] } *)

F(o, n) == [shift |-> o, numbits |-> n]

\* Mutant: Associativity declared one bit too wide.
M_CCSIDR_EL1_Associativity_wide ==
    [NumSets |-> F(13, 15), Associativity |-> F(3, 11), LineSize |-> F(0, 3)]

CCSIDR_EL1 ==
    [NumSets |-> F(13, 15), Associativity |-> F(3, 10), LineSize |-> F(0, 3)]

CSSELR_EL1 ==
    [Level |-> F(1, 3), InD |-> F(0, 1)]

HCR_EL2 ==
    [RW |-> F(31, 1), DC |-> F(12, 1), BSU |-> F(10, 2), FB |-> F(9, 1),
     VSE |-> F(8, 1), VI |-> F(7, 1), VF |-> F(6, 1), AMO |-> F(5, 1),
     IMO |-> F(4, 1), FMO |-> F(3, 1), PTW |-> F(2, 1), SWIO |-> F(1, 1),
     VM |-> F(0, 1)]

HSTR_EL2 ==
    [T15 |-> F(15, 1), T14 |-> F(14, 1), T13 |-> F(13, 1), T12 |-> F(12, 1),
     T11 |-> F(11, 1), T10 |-> F(10, 1), T9 |-> F(9, 1), T8 |-> F(8, 1),
     T7 |-> F(7, 1), T6 |-> F(6, 1), T5 |-> F(5, 1), T4 |-> F(4, 1),
     T3 |-> F(3, 1), T2 |-> F(2, 1), T1 |-> F(1, 1), T0 |-> F(0, 1)]

SCTLR_EL2 ==
    [I |-> F(12, 1), C |-> F(2, 1), M |-> F(0, 1)]

SPSR_EL2 ==
    [N |-> F(31, 1), Z |-> F(30, 1), C |-> F(29, 1), V |-> F(28, 1),
     SS |-> F(21, 1), IL |-> F(20, 1), D |-> F(9, 1), A |-> F(8, 1),
     I |-> F(7, 1), F |-> F(6, 1), M4 |-> F(4, 1), M |-> F(0, 4)]

TTBR0_EL2 ==
    [ASID |-> F(48, 16), BADDR |-> F(1, 47), CnP |-> F(0, 1)]

VTTBR_EL2 ==
    [VMID |-> F(48, 16), BADDR |-> F(1, 47), CnP |-> F(0, 1)]

\* impl RegisterReadWrite<u64, ()> for Reg: no named field.
VBAR_EL2 == [f \in {} |-> F(0, 1)]

\* Mutant: CRn transcribed one bit too low.
M_ISS_CRn_offset ==
    [CV |-> F(24, 1), Cond |-> F(20, 4), Opc2 |-> F(17, 3), Opc1 |-> F(14, 3),
     CRn |-> F(9, 4), Rt |-> F(5, 5), CRm |-> F(1, 4), Direction |-> F(0, 1)]

ISS ==
    [CV |-> F(24, 1), Cond |-> F(20, 4), Opc2 |-> F(17, 3), Opc1 |-> F(14, 3),
     CRn |-> F(10, 4), Rt |-> F(5, 5), CRm |-> F(1, 4), Direction |-> F(0, 1)]

\* Mutant: CCSIDR_EL1 given the read-write trait.
M_ReadWriteRegs_CCSIDR ==
    {"CCSIDR_EL1", "CSSELR_EL1", "HCR_EL2", "HSTR_EL2", "SCTLR_EL2", "SPSR_EL2",
     "TTBR0_EL2", "VBAR_EL2", "VTTBR_EL2"}

ReadWriteRegs ==
    {"CSSELR_EL1", "HCR_EL2", "HSTR_EL2", "SCTLR_EL2", "SPSR_EL2",
     "TTBR0_EL2", "VBAR_EL2", "VTTBR_EL2"}

ReadOnlyRegs == {"CCSIDR_EL1"}

SysRegs == ReadWriteRegs \cup ReadOnlyRegs

Layout(r) ==
    CASE r = "CCSIDR_EL1" -> CCSIDR_EL1
      [] r = "CSSELR_EL1" -> CSSELR_EL1
      [] r = "HCR_EL2" -> HCR_EL2
      [] r = "HSTR_EL2" -> HSTR_EL2
      [] r = "SCTLR_EL2" -> SCTLR_EL2
      [] r = "SPSR_EL2" -> SPSR_EL2
      [] r = "TTBR0_EL2" -> TTBR0_EL2
      [] r = "VTTBR_EL2" -> VTTBR_EL2
      [] r = "VBAR_EL2" -> VBAR_EL2
      [] r = "ISS" -> ISS

\* The raw type the layout and the accessor are declared with (u32 or u64).
Width(r) ==
    IF r \in {"HCR_EL2", "TTBR0_EL2", "VBAR_EL2", "VTTBR_EL2"} THEN 64 ELSE 32

Fields(r) == DOMAIN Layout(r)

-----------------------------------------------------------------------------
(* Enumerated values: FIELD OFFSET(o) NUMBITS(n) [ Name = value, ... ] *)

\* A layout none of whose fields lists a value.
NoValues == [f \in {} |-> [n \in {} |-> 0]]

CSSELR_EL1_Values ==
    [Level |-> [Level1 |-> 0, Level2 |-> 1, Level3 |-> 2, Level4 |-> 3,
                Level5 |-> 4, Level6 |-> 5, Level7 |-> 6],
     InD |-> [DataOrUnifiedCache |-> 0, InstructionCache |-> 1]]

\* Mutant: BSU loses its last name.
M_HCR_EL2_Values_BSU_short ==
    [RW |-> [AllLowerELsAreAarch32 |-> 0, EL1IsAarch64 |-> 1],
     BSU |-> [NoEffect |-> 0, InnerShareable |-> 1, OuterShareable |-> 2]]

HCR_EL2_Values ==
    [RW |-> [AllLowerELsAreAarch32 |-> 0, EL1IsAarch64 |-> 1],
     BSU |-> [NoEffect |-> 0, InnerShareable |-> 1, OuterShareable |-> 2,
              FullSystem |-> 3]]

SCTLR_EL2_Values ==
    [I |-> [NonCacheable |-> 0, Cacheable |-> 1],
     C |-> [NonCacheable |-> 0, Cacheable |-> 1],
     M |-> [Disable |-> 0, Enable |-> 1]]

\* Mutant: EL2h transcribed with the value of EL2t.
M_SPSR_EL2_Values_EL2h ==
    [D |-> [Unmasked |-> 0, Masked |-> 1],
     A |-> [Unmasked |-> 0, Masked |-> 1],
     I |-> [Unmasked |-> 0, Masked |-> 1],
     F |-> [Unmasked |-> 0, Masked |-> 1],
     M4 |-> [AArch32 |-> 1, AArch64 |-> 0],
     M |-> [EL0t |-> 0, EL1t |-> 4, EL1h |-> 5, EL2t |-> 8, EL2h |-> 8,
            FIQ |-> 1, IRQ |-> 2, Supervisor |-> 3, Abort |-> 7, Hyp |-> 10,
            Undefined |-> 11, System |-> 15]]

SPSR_EL2_Values ==
    [D |-> [Unmasked |-> 0, Masked |-> 1],
     A |-> [Unmasked |-> 0, Masked |-> 1],
     I |-> [Unmasked |-> 0, Masked |-> 1],
     F |-> [Unmasked |-> 0, Masked |-> 1],
     M4 |-> [AArch32 |-> 1, AArch64 |-> 0],
     M |-> [EL0t |-> 0, EL1t |-> 4, EL1h |-> 5, EL2t |-> 8, EL2h |-> 9,
            FIQ |-> 1, IRQ |-> 2, Supervisor |-> 3, Abort |-> 7, Hyp |-> 10,
            Undefined |-> 11, System |-> 15]]

ISS_Values ==
    [CV |-> [NotValid |-> 0, Valid |-> 1],
     Direction |-> [SystemRegisterWrite |-> 0, SystemRegisterRead |-> 1]]

Values(r) ==
    CASE r = "CSSELR_EL1" -> CSSELR_EL1_Values
      [] r = "HCR_EL2" -> HCR_EL2_Values
      [] r = "SCTLR_EL2" -> SCTLR_EL2_Values
      [] r = "SPSR_EL2" -> SPSR_EL2_Values
      [] r = "ISS" -> ISS_Values
      [] OTHER -> NoValues

\* The fields declared with a non-empty value list.
EnumFields(r) == DOMAIN Values(r)

Names(r, f) == DOMAIN Values(r)[f]

-----------------------------------------------------------------------------
(* Bit-field arithmetic of the register crate, at the raw width W *)

Mask(f) == Ones(f.numbits)

\* The bit positions OFFSET(o) NUMBITS(n) names.
FieldBits(f) == f.shift .. (f.shift + f.numbits - 1)

\* Mutant: the field is shifted down but never masked.
M_Field_read_nomask(f, raw) == Shr(raw, f.shift)

\* Field::read
Field_read(f, raw) == Shr(raw \cap Shl(Mask(f), f.shift, 64), f.shift)

\* Mutant: the value is shifted into place without being masked to the width.
M_Field_val_nomask(f, v, W) ==
    [mask |-> Shl(Mask(f), f.shift, W), value |-> Shl(v, f.shift, W)]

\* Field::val, FieldValue::new
Field_val(f, v, W) ==
    [mask |-> Shl(Mask(f), f.shift, W), value |-> Shl(v \cap Mask(f), f.shift, W)]

\* Mutant: the field is not cleared before the value is or-ed in.
M_FieldValue_modify_noclear(fv, raw) == raw \cup fv.value

\* Mutant: the other bits of the raw value are dropped.
M_FieldValue_modify_overwrite(fv, raw) == fv.value

\* FieldValue::modify
FieldValue_modify(fv, raw) == (raw \ fv.mask) \cup fv.value

\* Mutant: the shifted mask is written in place of the value.
M_write_mask(fv) == fv.mask

\* The value RegisterReadWrite::write(field) hands to set.
RegisterReadWrite_write(fv) == fv.value

\* Mutant: modify forgets what get returned.
M_modify_forgets_get(fv, got) == fv.value

\* The value RegisterReadWrite::modify(field) hands to set, given what get returned.
RegisterReadWrite_modify(fv, got) == FieldValue_modify(fv, got)

\* Mutant: the register is shifted down to the field but the field is not masked.
M_get_baddr_unmasked(r, raw) ==
    Shl(Shr(raw, Layout(r).BADDR.shift), 1, Width(r))

\* Mutant: the field is returned without the left shift.
M_get_baddr_noshift(r, raw) == Field_read(Layout(r).BADDR, raw)

\* Reg::get_baddr: self.read(BADDR) << 1
get_baddr(r, raw) == Shl(Field_read(Layout(r).BADDR, raw), 1, Width(r))

\* Reg::set_baddr: self.write(BADDR.val(addr >> 1))
set_baddr(r, addr) ==
    RegisterReadWrite_write(Field_val(Layout(r).BADDR, Shr(addr, 1), Width(r)))

\* FIELD::Name, the FieldValue constant generated for a listed value.
Named(r, f, n) == Field_val(Layout(r)[f], Bits(Values(r)[f][n]), Width(r))

\* The names of field f whose listed value is the integer v.
Matching(r, f, v) == {n \in Names(r, f) : Bits(Values(r)[f][n]) = v}

\* Mutant: an unlisted integer is given the name of a listed one.
M_TryFromValue_always(r, f, v) ==
    IF Matching(r, f, v) # {} THEN CHOOSE n \in Matching(r, f, v) : TRUE
    ELSE CHOOSE n \in Names(r, f) : TRUE

\* The generated match from an integer to FIELD::Value: Some(name) for a
\* listed value, None for any other.
TryFromValue(r, f, v) ==
    IF Matching(r, f, v) # {} THEN CHOOSE n \in Matching(r, f, v) : TRUE
    ELSE "None"

\* Mutant: only the 25 syndrome bits are kept.
M_new_truncated(value) == [value |-> value \cap Ones(25)]

\* McrMrcAccessIss::new
McrMrcAccessIss_new(value) == [value |-> value]

\* McrMrcAccessIss::get
McrMrcAccessIss_get(self) == self.value

-----------------------------------------------------------------------------
(* Inputs *)

Contexts == {"ctxA", "ctxB"}

RawSamples(W) == {{}, Ones(W), Alt(W)}

\* More raw values for the field arithmetic: with these every bit is 0 and 1
\* next to neighbours of either value.
FieldRawSamples(W) ==
    RawSamples(W) \cup
        {Ones(W) \ Alt(W), Bits(520109089), Ones(W) \ Bits(520109089)}

\* The accessors with at least one enumerated field.
EnumRegs == {r \in SysRegs \cup {"ISS"} : EnumFields(r) # {}}

\* Raw values in which an enumerated field of r takes every bit pattern of its
\* width, listed or not, inside each of the raw samples.
EnumRawSamples(r) ==
    UNION {{FieldValue_modify(Field_val(Layout(r)[f], Bits(p), Width(r)), bg) :
                p \in 0 .. (2 ^ Layout(r)[f].numbits - 1),
                bg \in RawSamples(Width(r))} : f \in EnumFields(r)}

\* Syndrome values handed to McrMrcAccessIss::new.
IssSamples == RawSamples(32) \cup {Bits(520109089), Bits(1), Ones(32) \ Alt(32)}

\* Values handed to Field::val: zero, the largest and a mixed value of the
\* field's range, and a value with every bit set but bit 0, which is out of the
\* range of every field.
FieldArgs(f, W) ==
    {{}, Mask(f), Mask(f) \cap Alt(W), Ones(W) \ {0}}

AddrSamples ==
    {{}, Bits(1073741824), Bits(1073741825), Ones(48), Ones(64), Alt(64),
     {30, 48}, {0, 1, 47, 63}}

NoOp == [ctx |-> "", op |-> "init", field |-> "", arg |-> {}, result |-> {},
         raced |-> FALSE]

Idle == [pc |-> "idle", field |-> "", arg |-> {}, got |-> {}, raced |-> FALSE]

-----------------------------------------------------------------------------
(* State machine *)

\* The registers hold a value drawn from the raw samples (the wider set when wide) when the accessors are
\* first used; a syndrome object is built with McrMrcAccessIss::new.
InitOver(wide) ==
    /\ reg \in SysRegs \cup {"ISS"}
    /\ IF reg = "ISS"
         THEN /\ hw = {}
              /\ issArg \in IssSamples
         ELSE /\ hw \in IF wide THEN FieldRawSamples(Width(reg))
                             ELSE RawSamples(Width(reg))
              /\ issArg = {}
    /\ iss = McrMrcAccessIss_new(issArg)
    /\ ctx = [c \in Contexts |-> Idle]
    /\ last = NoOp
    /\ prev = hw
    /\ prevW = NoOp
    /\ nops = 0

Init == InitOver(FALSE)

WriteOps == {"set", "write", "modify", "set_baddr"}

Ready(c) == nops < MaxOps /\ ctx[c].pc = "idle"

\* A hardware write of the whole register by context c: every read-modify-write
\* in flight in another context now holds a stale value.
HwWrite(c, op, field, arg, value, raced) ==
    /\ hw' = value
    /\ prev' = hw
    /\ prevW' = IF last.ctx \notin {c, ""} /\ last.op \in WriteOps THEN last ELSE NoOp
    /\ last' = [ctx |-> c, op |-> op, field |-> field, arg |-> arg,
                result |-> {}, raced |-> raced]
    /\ ctx' = [d \in Contexts |->
                 IF d = c THEN Idle
                 ELSE IF ctx[d].pc = "idle" THEN ctx[d]
                 ELSE [ctx[d] EXCEPT !.raced = TRUE]]

Returned(c, op, field, result) ==
    /\ last' = [ctx |-> c, op |-> op, field |-> field, arg |-> {},
                result |-> result, raced |-> FALSE]
    /\ UNCHANGED <<hw, prev, prevW, ctx>>

\* sys_coproc_read_raw!: get()
Get(c) ==
    /\ Ready(c) /\ reg \in SysRegs
    /\ Returned(c, "get", "", hw)
    /\ nops' = nops + 1
    /\ UNCHANGED <<reg, iss, issArg>>

\* Mutant: the msr moves only the low word.
M_Set_low_word(c) ==
    /\ Ready(c) /\ reg \in ReadWriteRegs
    /\ \E v \in RawSamples(Width(reg)) :
         HwWrite(c, "set", "", v, v \cap Ones(32), FALSE)
    /\ nops' = nops + 1
    /\ UNCHANGED <<reg, iss, issArg>>

\* sys_coproc_write_raw!: set(value)
Set(c) ==
    /\ Ready(c) /\ reg \in ReadWriteRegs
    /\ \E v \in RawSamples(Width(reg)) : HwWrite(c, "set", "", v, v, FALSE)
    /\ nops' = nops + 1
    /\ UNCHANGED <<reg, iss, issArg>>

\* RegisterReadOnly/ReadWrite::read(field)
Read(c) ==
    /\ Ready(c) /\ reg \in SysRegs
    /\ \E f \in Fields(reg) : Returned(c, "read", f, Field_read(Layout(reg)[f], hw))
    /\ nops' = nops + 1
    /\ UNCHANGED <<reg, iss, issArg>>

\* The raw value the accessor reads: the register, or the captured syndrome.
Cur == IF reg = "ISS" THEN McrMrcAccessIss_get(iss) ELSE hw

\* field.val(v).modify(raw) on a value the caller holds: no register is written.
Encode(c) ==
    /\ Ready(c)
    /\ \E f \in Fields(reg) : \E v \in FieldArgs(Layout(reg)[f], Width(reg)) :
         /\ last' = [ctx |-> c, op |-> "encode", field |-> f, arg |-> v,
                     result |-> FieldValue_modify(
                                    Field_val(Layout(reg)[f], v, Width(reg)), Cur),
                     raced |-> FALSE]
         /\ UNCHANGED <<hw, prev, prevW, ctx>>
    /\ nops' = nops + 1
    /\ UNCHANGED <<reg, iss, issArg>>

\* RegisterReadWrite::write(field.val(v))
Write(c) ==
    /\ Ready(c) /\ reg \in ReadWriteRegs
    /\ \E f \in Fields(reg) : \E v \in FieldArgs(Layout(reg)[f], Width(reg)) :
         HwWrite(c, "write", f, v,
                 RegisterReadWrite_write(Field_val(Layout(reg)[f], v, Width(reg))),
                 FALSE)
    /\ nops' = nops + 1
    /\ UNCHANGED <<reg, iss, issArg>>

\* RegisterReadWrite::modify(field.val(v)), first half: let reg = self.get()
ModifyGet(c) ==
    /\ Ready(c) /\ reg \in ReadWriteRegs
    /\ \E f \in Fields(reg) : \E v \in FieldArgs(Layout(reg)[f], Width(reg)) :
         ctx' = [ctx EXCEPT ![c] =
                   [pc |-> "modify", field |-> f, arg |-> v, got |-> hw,
                    raced |-> FALSE]]
    /\ nops' = nops + 1
    /\ UNCHANGED <<reg, hw, iss, issArg, last, prev, prevW>>

\* RegisterReadWrite::modify, second half: self.set(field.modify(reg))
ModifySet(c) ==
    /\ ctx[c].pc = "modify"
    /\ HwWrite(c, "modify", ctx[c].field, ctx[c].arg,
               RegisterReadWrite_modify(
                   Field_val(Layout(reg)[ctx[c].field], ctx[c].arg, Width(reg)),
                   ctx[c].got),
               ctx[c].raced)
    /\ UNCHANGED <<reg, iss, issArg, nops>>

HasBaddr == reg \in {"TTBR0_EL2", "VTTBR_EL2"}

\* Reg::get_baddr
GetBaddr(c) ==
    /\ Ready(c) /\ HasBaddr
    /\ Returned(c, "get_baddr", "BADDR", get_baddr(reg, hw))
    /\ nops' = nops + 1
    /\ UNCHANGED <<reg, iss, issArg>>

\* Reg::set_baddr
SetBaddr(c) ==
    /\ Ready(c) /\ HasBaddr
    /\ \E a \in AddrSamples :
         HwWrite(c, "set_baddr", "BADDR", a, set_baddr(reg, a), FALSE)
    /\ nops' = nops + 1
    /\ UNCHANGED <<reg, iss, issArg>>

\* McrMrcAccessIss::get
IssGet(c) ==
    /\ Ready(c) /\ reg = "ISS"
    /\ Returned(c, "get", "", McrMrcAccessIss_get(iss))
    /\ nops' = nops + 1
    /\ UNCHANGED <<reg, iss, issArg>>

\* RegisterReadOnly::read(field) on a McrMrcAccessIss
IssRead(c) ==
    /\ Ready(c) /\ reg = "ISS"
    /\ \E f \in Fields("ISS") :
         Returned(c, "read", f, Field_read(ISS[f], McrMrcAccessIss_get(iss)))
    /\ nops' = nops + 1
    /\ UNCHANGED <<reg, iss, issArg>>

\* FIELD::Name.modify(raw) on a value the caller holds: no register is written.
EncodeNamed(c) ==
    /\ Ready(c)
    /\ \E f \in EnumFields(reg) : \E n \in Names(reg, f) :
         /\ last' = [ctx |-> c, op |-> "encode_named", field |-> f,
                     arg |-> Bits(Values(reg)[f][n]),
                     result |-> FieldValue_modify(Named(reg, f, n), Cur),
                     raced |-> FALSE, name |-> n]
         /\ UNCHANGED <<hw, prev, prevW, ctx>>
    /\ nops' = nops + 1
    /\ UNCHANGED <<reg, iss, issArg>>

\* read_as_enum(field): the field of the raw value, and its FIELD::Value if any.
ReadAsEnum(c) ==
    /\ Ready(c)
    /\ \E f \in EnumFields(reg) :
         /\ last' = [ctx |-> c, op |-> "read_as_enum", field |-> f, arg |-> {},
                     result |-> Field_read(Layout(reg)[f], Cur),
                     raced |-> FALSE,
                     name |-> TryFromValue(reg, f, Field_read(Layout(reg)[f], Cur))]
         /\ UNCHANGED <<hw, prev, prevW, ctx>>
    /\ nops' = nops + 1
    /\ UNCHANGED <<reg, iss, issArg>>

\* One execution context uses the accessors.
Next ==
    \/ Get("ctxA")
    \/ Set("ctxA")
    \/ Read("ctxA")
    \/ Write("ctxA")
    \/ ModifyGet("ctxA")
    \/ ModifySet("ctxA")
    \/ GetBaddr("ctxA")
    \/ SetBaddr("ctxA")
    \/ IssGet("ctxA")
    \/ IssRead("ctxA")

Spec == Init /\ [][Next]_vars

\* The bit-field arithmetic on the value an accessor holds, for every layout,
\* and the base-address helpers built on it.
FieldNext ==
    \/ Encode("ctxA")
    \/ Read("ctxA")
    \/ IssRead("ctxA")
    \/ GetBaddr("ctxA")
    \/ SetBaddr("ctxA")

FieldInit == InitOver(TRUE)

FieldSpec == FieldInit /\ [][FieldNext]_vars

\* The enumerated fields: a register or syndrome holding any pattern in such a
\* field is read, looked up, and has named values encoded into it.
EnumInit ==
    /\ reg \in EnumRegs
    /\ IF reg = "ISS"
         THEN /\ hw = {}
              /\ issArg \in EnumRawSamples("ISS")
         ELSE /\ hw \in EnumRawSamples(reg)
              /\ issArg = {}
    /\ iss = McrMrcAccessIss_new(issArg)
    /\ ctx = [c \in Contexts |-> Idle]
    /\ last = NoOp
    /\ prev = hw
    /\ prevW = NoOp
    /\ nops = 0

EnumNext ==
    \/ EncodeNamed("ctxA")
    \/ ReadAsEnum("ctxA")
    \/ Read("ctxA")
    \/ IssRead("ctxA")

EnumSpec == EnumInit /\ [][EnumNext]_vars

\* Two execution contexts (two cores, or an interrupt handler and the context it
\* interrupts) use the same accessor of a read-write register: the mrs and the
\* msr of a modify are separate instructions, and the other context may run
\* between them.
RaceRegs == {"CSSELR_EL1", "SCTLR_EL2", "TTBR0_EL2", "VTTBR_EL2"}

RaceInit == Init /\ reg \in RaceRegs

RaceNext ==
    \E c \in Contexts :
        \/ ModifyGet(c)
        \/ ModifySet(c)

RaceSpec == RaceInit /\ [][RaceNext]_vars

TypeOK ==
    /\ reg \in SysRegs \cup {"ISS"}
    /\ hw \subseteq Ones(64)
    /\ nops \in 0 .. MaxOps

-----------------------------------------------------------------------------
(* Properties *)

LastField == Layout(reg)[last.field]

\* The value of bit i of a register that holds `arg` in field f and `rest`
\* everywhere else.
BitAfter(i, f, arg, rest) ==
    IF i \in FieldBits(f) THEN (i - f.shift) \in arg ELSE i \in rest

InRange(f, v) == v \subseteq Mask(f)

(* C1 as the spec states it: write(field, value) is a read-modify-write that
   keeps every bit outside the field, and on HCR_EL2 write(FMO, 1) after
   write(VM, 1) leaves raw 0x9. *)
C1_WriteKeepsOtherFields ==
    last.op = "write" =>
        /\ \A i \in Ones(Width(reg)) \ FieldBits(LastField) :
               (i \in hw) <=> (i \in prev)
        /\ (reg = "HCR_EL2" /\ last.field = "FMO" /\ last.arg = Bits(1)
               /\ prev = Bits(1)) => hw = Bits(9)

(* C1, amended: write(field, value) sets the register to the encoded field
   with every other bit zero (HCR_EL2 from 0x0: write(VM, 1) gives 0x1, then
   write(FMO, 1) gives 0x8); the read-modify-write that keeps every bit
   outside the field is modify(field, value) (from 0x1, modify(FMO, 1) gives
   0x9). *)
C1_WriteOverwritesModifyKeeps ==
    /\ last.op = "write" =>
           /\ \A i \in Ones(Width(reg)) :
                  (i \in hw) <=> BitAfter(i, LastField, last.arg, {})
           /\ (reg = "HCR_EL2" /\ last.field = "VM" /\ last.arg = Bits(1))
                  => hw = Bits(1)
           /\ (reg = "HCR_EL2" /\ last.field = "FMO" /\ last.arg = Bits(1))
                  => hw = Bits(8)
    /\ last.op = "modify" =>
           /\ \A i \in Ones(Width(reg)) :
                  (i \in hw) <=> BitAfter(i, LastField, last.arg, prev)
           /\ (reg = "HCR_EL2" /\ last.field = "FMO" /\ last.arg = Bits(1)
                  /\ prev = Bits(1)) => hw = Bits(9)

\* HCR_EL2 from 0x0: write(VM, 1), then write(FMO, 1) has acted.
C1_Witness ==
    /\ reg = "HCR_EL2" /\ last.op = "write" /\ last.field = "FMO"
    /\ last.arg = Bits(1) /\ prev = Bits(1) /\ hw = Bits(8)

(* C2: set_baddr changes only bits [47:1]: bits [63:48] (ASID/VMID) and bit 0
   (CnP) keep the values they had before the call. *)
C2_SetBaddrKeepsAsidAndCnP ==
    last.op = "set_baddr" =>
        \A i \in Ones(64) \ FieldBits(Layout(reg).BADDR) :
            (i \in hw) <=> (i \in prev)

(* C3: after set_baddr(address) with address below 2^48 the BADDR field holds
   address >> 1 and get_baddr() returns address with bit 0 cleared (address
   itself when it is even); set_baddr(0x4000_0000) stores 0x2000_0000 and
   get_baddr() returns 0x4000_0000. *)
C3_BaddrRoundTrip ==
    (last.op = "set_baddr" /\ last.arg \subseteq Ones(48)) =>
        /\ \A i \in Ones(64) :
               (i \in Field_read(Layout(reg).BADDR, hw)) <=> ((i + 1) \in last.arg)
        /\ \A i \in Ones(64) :
               (i \in get_baddr(reg, hw)) <=> (i \in last.arg /\ i # 0)
        /\ last.arg = Bits(1073741824) =>
               /\ Field_read(Layout(reg).BADDR, hw) = Bits(536870912)
               /\ get_baddr(reg, hw) = Bits(1073741824)

\* An odd address below 2^48 was written: get_baddr returns it without bit 0.
C3_Witness ==
    /\ HasBaddr /\ last.op = "set_baddr" /\ last.arg = Bits(1073741825)
    /\ get_baddr(reg, hw) = Bits(1073741824)

(* C4: for every field of every layout, every raw and every v in
   [0, 2^width - 1], decode(encode(raw, field, v), field) = v. *)
C4_DecodeEncode ==
    (last.op = "encode" /\ InRange(LastField, last.arg)) =>
        Field_read(LastField, last.result) = last.arg

\* The widest field, at its largest value, encoded into a register of all ones.
C4_Witness ==
    /\ reg = "TTBR0_EL2" /\ last.op = "encode" /\ last.field = "BADDR"
    /\ last.arg = Alt(64) \cap Ones(47) /\ Cur = Ones(64)
    /\ Field_read(TTBR0_EL2.BADDR, last.result) = Alt(64) \cap Ones(47)

(* C5: encode(raw, field, v) differs from raw only in bits
   [offset, offset + width): every other bit equals that bit of raw, for
   every v, in range or not. *)
C5_EncodeFrame ==
    last.op = "encode" =>
        \A i \in Ones(64) \ FieldBits(LastField) :
            (i \in last.result) <=> (i \in Cur)

\* An out-of-range value encoded into an SPSR_EL2 field inside a raw of all ones.
C5_Witness ==
    /\ reg = "SPSR_EL2" /\ last.op = "encode" /\ last.field = "M"
    /\ last.arg = Ones(32) \ {0} /\ Cur = Ones(32)
    /\ last.result = Ones(32) \ {0}

(* C6: encode(raw, field, value) equals encode(raw, field, value & mask) for
   every value, also one with bits at or above the field width; set_baddr
   truncates an address with bits at or above bit 48 the same way. *)
C6_Truncation ==
    /\ last.op = "encode" =>
           last.result =
               FieldValue_modify(
                   Field_val(LastField, last.arg \cap Mask(LastField), Width(reg)),
                   Cur)
    /\ last.op = "set_baddr" =>
           /\ hw = set_baddr(reg, last.arg \cap Ones(48))
           /\ hw \subseteq FieldBits(Layout(reg).BADDR)

\* 0xFFFF_FFFE written to the three-bit CSSELR_EL1.Level field: 0b110 is stored.
C6_Witness ==
    /\ reg = "CSSELR_EL1" /\ last.op = "encode" /\ last.field = "Level"
    /\ last.arg = Ones(32) \ {0} /\ Cur = {} /\ last.result = {2, 3}

(* C7: two contexts that each modify (get, encode, set) a different field of
   the same register keep both updates when the second get follows the first
   set; a lost update needs the two to interleave. *)
C7_SequentialKeepsBoth ==
    (/\ last.op = "modify" /\ prevW.op = "modify"
     /\ prevW.ctx # last.ctx /\ prevW.field # last.field
     /\ ~last.raced) =>
        /\ Field_read(LastField, hw) = last.arg \cap Mask(LastField)
        /\ Field_read(Layout(reg)[prevW.field], hw)
               = prevW.arg \cap Mask(Layout(reg)[prevW.field])

\* Both contexts read the register before either wrote it: the second set
\* carries its own field and wipes out the field the first set wrote.
C7_LostUpdate ==
    /\ last.op = "modify" /\ prevW.op = "modify"
    /\ prevW.ctx # last.ctx /\ prevW.field # last.field
    /\ last.raced
    /\ Field_read(LastField, hw) = last.arg \cap Mask(LastField)
    /\ Field_read(Layout(reg)[prevW.field], hw)
           # prevW.arg \cap Mask(Layout(reg)[prevW.field])

(* C8: the syndrome 0x1F00_3C21 decodes to Direction = 1, CRm = 0, Rt = 1,
   CRn = 0xF, Opc1 = 0, Opc2 = 0, Cond = 0, CV = 1. *)
C8_SyndromeScenario ==
    (reg = "ISS" /\ issArg = Bits(520109089) /\ last.op = "read") =>
        last.result =
            CASE last.field = "Direction" -> Bits(1)
              [] last.field = "CRm" -> Bits(0)
              [] last.field = "Rt" -> Bits(1)
              [] last.field = "CRn" -> Bits(15)
              [] last.field = "Opc1" -> Bits(0)
              [] last.field = "Opc2" -> Bits(0)
              [] last.field = "Cond" -> Bits(0)
              [] last.field = "CV" -> Bits(1)

C8_Witness ==
    /\ reg = "ISS" /\ issArg = Bits(520109089) /\ last.op = "read"
    /\ last.field = "CRn" /\ last.result = Bits(15)

(* C9: for every 32-bit value given to McrMrcAccessIss::new, every field read
   returns a value in [0, 2^width - 1], namely bits
   [offset, offset + width) of the value. *)
C9_SyndromeReadInRange ==
    (reg = "ISS" /\ last.op = "read") =>
        /\ last.result \subseteq Ones(ISS[last.field].numbits)
        /\ \A i \in Ones(ISS[last.field].numbits) :
               (i \in last.result) <=> ((i + ISS[last.field].shift) \in issArg)

\* The all-ones syndrome: the four-bit Cond field reads 0xF and nothing above.
C9_Witness ==
    /\ reg = "ISS" /\ issArg = Ones(32) /\ last.op = "read"
    /\ last.field = "Cond" /\ last.result = Ones(4)

(* C10: a McrMrcAccessIss keeps the value given to new: after any sequence of
   get and field reads, get() returns exactly that value. *)
C10_SyndromeImmutable ==
    reg = "ISS" =>
        /\ McrMrcAccessIss_get(iss) = issArg
        /\ last.op = "get" => last.result = issArg

\* A get that follows an earlier operation on the same object.
C10_Witness ==
    /\ reg = "ISS" /\ nops > 1 /\ last.op = "get"
    /\ last.result = Bits(520109089)

\* Every field of layout r has at least one bit, lies inside the raw width,
\* and shares no bit with another field of r.
WellFormed(r) ==
    \A f \in Fields(r) :
        /\ Layout(r)[f].numbits >= 1
        /\ Layout(r)[f].shift >= 0
        /\ Layout(r)[f].shift + Layout(r)[f].numbits <= Width(r)
        /\ \A g \in Fields(r) \ {f} :
               \/ Layout(r)[f].shift + Layout(r)[f].numbits <= Layout(r)[g].shift
               \/ Layout(r)[g].shift + Layout(r)[g].numbits <= Layout(r)[f].shift

(* C11: in every register layout (CCSIDR_EL1, CSSELR_EL1, HCR_EL2, HSTR_EL2,
   SCTLR_EL2, SPSR_EL2, TTBR0_EL2, VTTBR_EL2, ISS) every field has width >= 1,
   offset + width <= the raw width of the layout (32 or 64), and no two
   fields of one layout share a bit; so a field read never sees a bit of
   another field. *)
C11_LayoutsWellFormed ==
    /\ Width(reg) \in {32, 64}
    /\ WellFormed(reg)
    /\ last.op = "read" =>
           \A g \in Fields(reg) \ {last.field} : \A i \in FieldBits(Layout(reg)[g]) :
               (i - LastField.shift) \in last.result => i \in FieldBits(LastField)

\* CCSIDR_EL1, whose three fields touch each other: the middle one is read
\* from a register of all ones.
C11_Witness ==
    /\ reg = "CCSIDR_EL1" /\ hw = Ones(32) /\ last.op = "read"
    /\ last.field = "Associativity" /\ last.result = Ones(10)

\* No two names of one field of r are listed with the same integer.
UniqueValues(r) ==
    \A f \in EnumFields(r) : \A n1, n2 \in Names(r, f) :
        Values(r)[f][n1] = Values(r)[f][n2] => n1 = n2

\* Bits [offset, offset + width) of raw, moved down to bit 0.
FieldOf(f, raw) == {i \in Ones(f.numbits) : (i + f.shift) \in raw}

(* C12: for every enumerated field, each named value encoded into any raw and
   then decoded returns the same integer and the same name, and no two names
   of one field share an integer; CSSELR_EL1::InD::InstructionCache round-trips
   to 1, and SPSR_EL2 raw 0b1001 decodes M to EL2h, one of exactly 12 named M
   values. *)
C12_EnumRoundTrip ==
    /\ UniqueValues(reg)
    /\ reg = "SPSR_EL2" => Cardinality(Names("SPSR_EL2", "M")) = 12
    /\ last.op = "encode_named" =>
           /\ Field_read(LastField, last.result) = Bits(Values(reg)[last.field][last.name])
           /\ TryFromValue(reg, last.field, Field_read(LastField, last.result))
                  = last.name
           /\ (reg = "CSSELR_EL1" /\ last.field = "InD"
                  /\ last.name = "InstructionCache")
                  => Field_read(LastField, last.result) = Bits(1)
    /\ (reg = "SPSR_EL2" /\ last.op = "read_as_enum" /\ last.field = "M"
           /\ Cur = Bits(9)) => last.name = "EL2h"

\* EL2h encoded into the M field of an SPSR_EL2 value of all ones.
C12_Witness ==
    /\ reg = "SPSR_EL2" /\ last.op = "encode_named" /\ last.field = "M"
    /\ last.name = "EL2h" /\ Cur = Ones(32)
    /\ last.result = Ones(32) \ {1, 2}

(* C13: reading a field whose bit pattern is not in its enumerated set
   (CSSELR_EL1.Level = 0b111; SPSR_EL2.M in {0b0110, 0b1100, 0b1101, 0b1110})
   returns the raw integer unchanged and the enum lookup reports no symbolic
   match; there is no failing outcome. *)
C13_UnlistedPattern ==
    /\ last.op \in {"read", "read_as_enum"} =>
           last.result = FieldOf(LastField, Cur)
    /\ (last.op = "read_as_enum"
           /\ \/ reg = "CSSELR_EL1" /\ last.field = "Level"
                    /\ FieldOf(CSSELR_EL1.Level, Cur) = Bits(7)
              \/ reg = "SPSR_EL2" /\ last.field = "M"
                    /\ FieldOf(SPSR_EL2.M, Cur) \in {Bits(6), Bits(12), Bits(13), Bits(14)})
           => last.name = "None"
    /\ (last.op = "read_as_enum" /\ Matching(reg, last.field, last.result) = {})
           => last.name = "None"

\* SPSR_EL2 holds the reserved mode 0b1101: the lookup finds no name.
C13_Witness ==
    /\ reg = "SPSR_EL2" /\ last.op = "read_as_enum" /\ last.field = "M"
    /\ last.result = Bits(13) /\ last.name = "None"

\* The fields C17 names as listing every bit pattern of their width.
ExhaustiveFields ==
    {<<"ISS", "CV">>, <<"ISS", "Direction">>, <<"CSSELR_EL1", "InD">>,
     <<"HCR_EL2", "RW">>, <<"HCR_EL2", "BSU">>, <<"SCTLR_EL2", "I">>,
     <<"SCTLR_EL2", "C">>, <<"SCTLR_EL2", "M">>, <<"SPSR_EL2", "D">>,
     <<"SPSR_EL2", "A">>, <<"SPSR_EL2", "I">>, <<"SPSR_EL2", "F">>,
     <<"SPSR_EL2", "M4">>}

(* C17: the fields whose enumerated values cover all 2^width bit patterns are
   ISS CV and Direction, CSSELR_EL1 InD, HCR_EL2 RW and BSU, SCTLR_EL2 I/C/M
   and SPSR_EL2 D/A/I/F/M4; for these the enum lookup of the decoded field
   yields a name, the one listed with the decoded integer, for every raw
   value: no symbolic match is unreachable. *)
C17_ExhaustiveAlwaysNamed ==
    /\ \A f \in EnumFields(reg) :
           (<<reg, f>> \in ExhaustiveFields) <=>
               {Values(reg)[f][n] : n \in Names(reg, f)}
                   = 0 .. (2 ^ Layout(reg)[f].numbits - 1)
    /\ (last.op = "read_as_enum" /\ <<reg, last.field>> \in ExhaustiveFields) =>
           /\ last.name \in Names(reg, last.field)
           /\ Bits(Values(reg)[last.field][last.name]) = FieldOf(LastField, Cur)

\* HCR_EL2 with both BSU bits set: the lookup names FullSystem.
C17_Witness ==
    /\ reg = "HCR_EL2" /\ last.op = "read_as_enum" /\ last.field = "BSU"
    /\ last.result = Bits(3) /\ last.name = "FullSystem"

ReadOps == {"get", "read", "get_baddr"}

(* C14: CCSIDR_EL1 and McrMrcAccessIss are ReadOnly: only get and field reads
   exist on them and no sequence of operations changes the value they read.
   CSSELR_EL1, HCR_EL2, HSTR_EL2, SCTLR_EL2, SPSR_EL2, TTBR0_EL2, VBAR_EL2 and
   VTTBR_EL2 are ReadWrite: every writing operation that completes is on one
   of them.  Every operation that completes is one the accessor provides;
   there is no unsupported-operation outcome. *)
C14_AccessModes ==
    /\ reg \in {"CCSIDR_EL1", "ISS"} =>
           /\ last.op \in {"init", "get", "read"}
           /\ hw = prev /\ prevW = NoOp
           /\ McrMrcAccessIss_get(iss) = issArg
           /\ ctx["ctxA"].pc = "idle"
    /\ reg \in {"CSSELR_EL1", "HCR_EL2", "HSTR_EL2", "SCTLR_EL2", "SPSR_EL2",
                 "TTBR0_EL2", "VBAR_EL2", "VTTBR_EL2"} =>
           /\ reg \in ReadWriteRegs
           /\ last.op \in {"init"} \cup ReadOps \cup WriteOps
    /\ last.op \in WriteOps => reg \in ReadWriteRegs
    /\ last.op \in {"get_baddr", "set_baddr"} => HasBaddr

\* Two operations on CCSIDR_EL1 have completed and it still holds 0xAAAA_AAAA.
C14_Witness ==
    /\ reg = "CCSIDR_EL1" /\ nops = 2 /\ last.op = "read"
    /\ last.field = "NumSets" /\ hw = Alt(32) /\ prev = Alt(32)

(* C15: on a ReadWrite register set(raw) stores raw at the full raw width
   (64 bits for HCR_EL2, TTBR0_EL2, VBAR_EL2, VTTBR_EL2; 32 bits for
   CSSELR_EL1, HSTR_EL2, SCTLR_EL2, SPSR_EL2), bits of no named field
   included; reads leave the register alone, and get() returns exactly the
   value of the most recent set. *)
C15_SetGetFullWidth ==
    [][/\ last'.op = "set" =>
             /\ hw' = last'.arg
             /\ \A i \in Ones(Width(reg)) : (i \in hw') <=> (i \in last'.arg)
       /\ (last'.op = "get" /\ reg \in ReadWriteRegs) => last'.result = hw'
       /\ last'.op \in ReadOps => hw' = hw
       /\ (last.op = "set" /\ last'.op = "get") => last'.result = last.arg]_vars

\* VBAR_EL2, which has no named field: all 64 bits were set and are read back.
C15_Witness ==
    /\ reg = "VBAR_EL2" /\ last.op = "get" /\ last.result = Ones(64)
    /\ prev # hw

(* C16: on TTBR0_EL2 and VTTBR_EL2, after any sequence of set, field writes
   and set_baddr, with any ASID/VMID and CnP contents, get_baddr() returns
   bits [47:1] of the register and nothing else: bit 0 and bits [63:48] are
   clear, so the value is even, below 2^48, and free of ASID/VMID and CnP. *)
C16_GetBaddrRange ==
    last.op = "get_baddr" =>
        /\ 0 \notin last.result
        /\ last.result \cap (48 .. 63) = {}
        /\ last.result = hw \cap (1 .. 47)

\* VTTBR_EL2 set to all ones, VMID and CnP included: get_baddr returns bits 47..1.
C16_Witness ==
    /\ reg = "VTTBR_EL2" /\ last.op = "get_baddr" /\ hw = Ones(64)
    /\ prev # hw /\ last.result = 1 .. 47

=============================================================================
